---- MODULE Spec2Model ----
(***************************************************************************)
(* Model of mlflow/pyfunc/context.py (the prediction request context and   *)
(* its ContextVar binding) and of the search operations of                 *)
(* mlflow/entities/trace.py (Trace.search_spans, Trace.search_assessments).*)
(*                                                                         *)
(* Python values are tagged records [k |-> <type name>, v |-> <payload>],  *)
(* the payload always a sequence of strings, so that isinstance(), bool()  *)
(* and "is None" are computed from the value as Python computes them.      *)
(***************************************************************************)
EXTENDS Integers, Sequences, FiniteSets, TLC

VARIABLES status, base, ctxvar, stack, heap, spans, assessments, call, ret, exc

vars == <<status, base, ctxvar, stack, heap, spans, assessments, call, ret, exc>>

(* ------------------------------ bounds -------------------------------- *)
NumExecs == 2
MaxOpen == 2
MaxKwargs == 2
MaxSpans == 2
MaxAssessments == 2

Execs == 1..NumExecs
\* The Context objects the callers have constructed.
ObjNames == <<"ctx1", "ctx2">>
Objs == {ObjNames[i] : i \in DOMAIN ObjNames}

(* --------------------------- Python values ---------------------------- *)
None == [k |-> "NoneType", v |-> <<>>]
MISSING == [k |-> "MISSING", v |-> <<>>]
Str(s) == [k |-> "str", v |-> s]
PyInt(s) == [k |-> "int", v |-> <<s>>]
PyBool(s) == [k |-> "bool", v |-> <<s>>]
PyTrue == PyBool("True")
PyFalse == PyBool("False")
Ctx(o) == [k |-> "Context", v |-> <<o>>]
Method == [k |-> "method", v |-> <<>>]

NoExc == [type |-> "None", arg |-> ""]
Raise(t, a) == [type |-> t, arg |-> a]

\* bool(value): None, "", 0, False and [] are false; a Context (a dataclass
\* with neither __bool__ nor __len__) and every other value are true.
truthy(value) ==
    CASE value.k = "NoneType" -> FALSE
      [] value.k = "Context" -> TRUE
      [] value.k = "int" -> value.v # <<"0">>
      [] value.k = "bool" -> value.v # <<"False">>
      [] OTHER -> value.v # <<>>

isinstance(value, cls) == value.k = cls

(* ------------------------ context.py: Context ------------------------- *)
Fields == {"request_id", "is_evaluate", "dependencies_schemas", "model_id", "endpoint_name"}

\* Context(): the five fields with their defaults; "update" is the class
\* attribute through which hasattr() also answers true.
Context ==
    [a \in Fields \cup {"update"} |->
        CASE a = "is_evaluate" -> PyFalse
          [] a = "update" -> Method
          [] OTHER -> None]

hasattr(self, key) == key \in DOMAIN self

setattr(self, key, value) == [self EXCEPT ![key] = value]

\* A variant that works on a copy: the object itself is never changed.
updateCopy(self, kwargs) ==
    LET bad == {i \in 1..Len(kwargs) : ~hasattr(self, kwargs[i].key)}
        first == CHOOSE i \in bad : \A j \in bad : i <= j
    IN  IF bad # {}
        THEN [self |-> self, exc |-> Raise("AttributeError", kwargs[first].key)]
        ELSE [self |-> self, exc |-> NoExc]

\* Context.update: the keyword arguments in call order; each is assigned as
\* soon as hasattr() accepts it, the first one it rejects raises.
RECURSIVE update(_, _)
update(self, kwargs) ==
    IF kwargs = <<>>
    THEN [self |-> self, exc |-> NoExc]
    ELSE LET key == Head(kwargs).key
             value == Head(kwargs).value
         IN  IF hasattr(self, key)
             THEN update(setattr(self, key, value), Tail(kwargs))
             ELSE [self |-> self, exc |-> Raise("AttributeError", key)]

(* ------------------ context.py: _PREDICTION_REQUEST_CTX --------------- *)
\* ContextVar.get(): the value in the calling execution's context, or the
\* default (None) when the variable has no value there.
CtxGet(cv, e) == IF cv[e] = MISSING THEN None ELSE cv[e]

\* A variant in which the variable is one global shared by all executions.
CtxSetGlobal(cv, e, value) == [x \in DOMAIN cv |-> value]

\* A variant that keeps an existing binding instead of shadowing it.
CtxSetOnce(cv, e, value) == IF cv[e] = MISSING THEN [cv EXCEPT ![e] = value] ELSE cv

\* ContextVar.set(value): changes the calling execution's context only.
CtxSet(cv, e, value) == [cv EXCEPT ![e] = value]

\* A variant that clears the variable instead of restoring the old value.
CtxResetClear(cv, e, token) == [cv EXCEPT ![e] = MISSING]

\* ContextVar.reset(token): back to the value the variable had before the
\* set() that made the token (MISSING: the variable is unset again).
CtxReset(cv, e, token) == [cv EXCEPT ![e] = token]

\* The guard of set_prediction_context: TRUE when it raises TypeError.
checkContext(context) == truthy(context) /\ ~isinstance(context, "Context")

get_prediction_context(e) == CtxGet(ctxvar, e)

\* The number of set_prediction_context blocks open in executions 1..n.
RECURSIVE OpenBlocks(_)
OpenBlocks(n) == IF n = 0 THEN 0 ELSE Len(stack[n]) + OpenBlocks(n - 1)

(* ------------------------- contexts: the state ------------------------ *)
\* status[e]  "idle" or "running": whether logical execution e exists
\* base[e]    the value of the variable in e's context when e started
\* ctxvar[e]  the value of _PREDICTION_REQUEST_CTX in e's context
\* stack[e]   the set_prediction_context blocks e is inside, innermost last;
\*            each holds its argument, its token (the old value) and what
\*            get_prediction_context returned just before it was entered
\* heap[o]    the attributes of Context object o
\* call, ret, exc  the last operation, what it returned, what it raised

\* Values passed to set_prediction_context.
EnterValues == {None} \cup {Ctx(o) : o \in Objs} \cup {Str(<<>>), Str(<<"x">>)}

\* Keyword arguments passed to Context.update: distinct names, in call order.
UpdateKeys == {"model_id", "endpoint_name", "update", "bogus"}
UpdateValues == {Str(<<"v1">>), Str(<<"v2">>)}
KwargSeqs(n) ==
    UNION {{kw \in [1..m -> [key : UpdateKeys, value : UpdateValues]] :
               \A i, j \in 1..m : i # j => kw[i].key # kw[j].key} : m \in 0..n}

CallNone == [op |-> "none", e |-> 0, arg |-> <<>>]

InitCommon ==
    /\ status = [e \in Execs |-> IF e = 1 THEN "running" ELSE "idle"]
    /\ base = [e \in Execs |-> MISSING]
    /\ ctxvar = [e \in Execs |-> MISSING]
    /\ stack = [e \in Execs |-> <<>>]
    /\ heap = [o \in Objs |-> Context]
    /\ call = CallNone
    /\ ret = None
    /\ exc = NoExc

Init ==
    /\ InitCommon
    /\ spans = <<>>
    /\ assessments = <<>>

\* A new thread starts with an empty context: the variable is unset in it.
SpawnThread(p, c) ==
    /\ status[p] = "running" /\ status[c] = "idle"
    /\ status' = [status EXCEPT ![c] = "running"]
    /\ base' = [base EXCEPT ![c] = MISSING]
    /\ ctxvar' = [ctxvar EXCEPT ![c] = MISSING]
    /\ call' = [op |-> "spawn_thread", e |-> c, arg |-> <<>>]
    /\ ret' = None /\ exc' = NoExc
    /\ UNCHANGED <<stack, heap, spans, assessments>>

\* A new task runs in a copy of its parent's context: it starts with the
\* value the parent has at that moment.
SpawnTask(p, c) ==
    /\ status[p] = "running" /\ status[c] = "idle"
    /\ status' = [status EXCEPT ![c] = "running"]
    /\ base' = [base EXCEPT ![c] = ctxvar[p]]
    /\ ctxvar' = [ctxvar EXCEPT ![c] = ctxvar[p]]
    /\ call' = [op |-> "spawn_task", e |-> c, arg |-> <<>>]
    /\ ret' = None /\ exc' = NoExc
    /\ UNCHANGED <<stack, heap, spans, assessments>>

\* An execution other than the main one ends once it has left its blocks.
Finish(e) ==
    /\ e # 1 /\ status[e] = "running" /\ stack[e] = <<>>
    /\ status' = [status EXCEPT ![e] = "idle"]
    /\ base' = [base EXCEPT ![e] = MISSING]
    /\ ctxvar' = [ctxvar EXCEPT ![e] = MISSING]
    /\ call' = [op |-> "finish", e |-> e, arg |-> <<>>]
    /\ ret' = None /\ exc' = NoExc
    /\ UNCHANGED <<stack, heap, spans, assessments>>

\* with set_prediction_context(context): up to the yield.
Enter(e, context) ==
    /\ status[e] = "running" /\ OpenBlocks(NumExecs) < MaxOpen
    /\ call' = [op |-> "enter", e |-> e, arg |-> context]
    /\ ret' = None
    /\ IF checkContext(context)
       THEN /\ exc' = Raise("TypeError", "context")
            /\ UNCHANGED <<ctxvar, stack>>
       ELSE /\ exc' = NoExc
            /\ ctxvar' = CtxSet(ctxvar, e, context)
            /\ stack' = [stack EXCEPT ![e] = Append(@,
                   [context |-> context, token |-> ctxvar[e],
                    prior |-> get_prediction_context(e)])]
    /\ UNCHANGED <<status, base, heap, spans, assessments>>

\* The innermost block of e ends, normally or because its body raised: the
\* finally clause resets the variable, an error of the body propagates.
Exit(e, raised) ==
    /\ status[e] = "running" /\ stack[e] # <<>>
    /\ LET frame == stack[e][Len(stack[e])]
       IN  ctxvar' = CtxReset(ctxvar, e, frame.token)
    /\ stack' = [stack EXCEPT ![e] = SubSeq(@, 1, Len(@) - 1)]
    /\ call' = [op |-> "exit", e |-> e, arg |-> <<>>]
    /\ ret' = None
    /\ exc' = IF raised THEN Raise("BodyError", "") ELSE NoExc
    /\ UNCHANGED <<status, base, heap, spans, assessments>>

GetContext(e) ==
    /\ status[e] = "running"
    /\ call' = [op |-> "get", e |-> e, arg |-> <<>>]
    /\ ret' = get_prediction_context(e)
    /\ exc' = NoExc
    /\ UNCHANGED <<status, base, ctxvar, stack, heap, spans, assessments>>

\* get_prediction_context().update(**kwargs) in execution e.
UpdateCurrent(e, kwargs) ==
    /\ status[e] = "running"
    /\ isinstance(get_prediction_context(e), "Context")
    /\ LET o == get_prediction_context(e).v[1]
           r == update(heap[o], kwargs)
       IN  /\ heap' = [heap EXCEPT ![o] = r.self]
           /\ exc' = r.exc
    /\ call' = [op |-> "update", e |-> e, arg |-> kwargs]
    /\ ret' = None
    /\ UNCHANGED <<status, base, ctxvar, stack, spans, assessments>>

\* Keyword arguments used by the executions: one recognized field each.
ScopeKwargs == {<<[key |-> "model_id", value |-> Str(<<"v1">>)]>>}

Next ==
    \/ \E p, c \in Execs : SpawnThread(p, c)
    \/ \E p, c \in Execs : SpawnTask(p, c)
    \/ \E e \in Execs : Finish(e)
    \/ \E e \in Execs, context \in EnterValues : Enter(e, context)
    \/ \E e \in Execs, raised \in BOOLEAN : Exit(e, raised)
    \/ \E e \in Execs : GetContext(e)
    \/ \E e \in Execs, kwargs \in ScopeKwargs : UpdateCurrent(e, kwargs)

Spec == Init /\ [][Next]_vars

(* --------------------- Context.update on its own ---------------------- *)
\* context.update(**kwargs) by the code that holds Context object o.
ContextUpdate(o, kwargs) ==
    /\ LET r == update(heap[o], kwargs)
       IN  /\ heap' = [heap EXCEPT ![o] = r.self]
           /\ exc' = r.exc
    /\ call' = [op |-> "update", e |-> 0, arg |-> kwargs]
    /\ ret' = None
    /\ UNCHANGED <<status, base, ctxvar, stack, spans, assessments>>

NextUpdate == \E kwargs \in KwargSeqs(MaxKwargs) : ContextUpdate(ObjNames[1], kwargs)

SpecUpdate == Init /\ [][NextUpdate]_vars

(* ------------------------- claims on contexts ------------------------- *)
Top(e) == stack[e][Len(stack[e])]

\* C1: two executions that are each inside a block of their own, with
\* distinct contexts, never read the other's context, and an enter or exit
\* of one execution never changes what another running execution reads.
C1_Isolation ==
    [][/\ \A e \in Execs :
            (status[e] = "running" /\ call'.op \in {"enter", "exit"} /\ call'.e # e)
                => CtxGet(ctxvar', e) = CtxGet(ctxvar, e)
       /\ \A e1, e2 \in Execs :
            (e1 # e2 /\ stack'[e1] # <<>> /\ stack'[e2] # <<>>
                /\ stack'[e1][Len(stack'[e1])].context # stack'[e2][Len(stack'[e2])].context)
                => CtxGet(ctxvar', e1) # stack'[e2][Len(stack'[e2])].context]_vars

C1_Witness ==
    \E e1, e2 \in Execs :
        /\ e1 # e2 /\ stack[e1] # <<>> /\ stack[e2] # <<>>
        /\ isinstance(Top(e1).context, "Context") /\ isinstance(Top(e2).context, "Context")
        /\ Top(e1).context # Top(e2).context
        /\ call.op = "get" /\ call.e = e1 /\ ret = Top(e1).context

\* C2: right after a block is entered with ctx, get_prediction_context
\* returns ctx; right after the block has exited, normally or by an error of
\* its body, it returns what it returned just before the block was entered.
C2_EnterExitRestores ==
    [][/\ (call'.op = "enter" /\ exc' = NoExc)
            => CtxGet(ctxvar', call'.e) = call'.arg
       /\ call'.op = "exit"
            => CtxGet(ctxvar', call'.e) = Top(call'.e).prior]_vars

C2_Witness ==
    /\ call.op = "exit" /\ exc.type = "BodyError"
    /\ stack[call.e] # <<>>
    /\ isinstance(get_prediction_context(call.e), "Context")

C4_UnknownNameRejected ==
    [][call'.op = "update" =>
        LET kwargs == call'.arg
            unknown == {i \in 1..Len(kwargs) : kwargs[i].key \notin Fields}
        IN  IF unknown # {}
            THEN exc'.type = "AttributeError" /\ heap' = heap
            ELSE exc' = NoExc]_vars

\* C5: a value that is neither None nor a Context is rejected with a
\* TypeError and is never the value of the variable in any execution.
C5_NonContextRejected ==
    /\ (call.op = "enter" /\ call.arg.k \notin {"NoneType", "Context"})
            => exc.type = "TypeError"
    /\ \A e \in Execs : ctxvar[e].k \in {"MISSING", "NoneType", "Context"}

\* An execution that reads a binding it inherited, with no block of its own.
Inheriting(e) ==
    /\ status[e] = "running" /\ stack[e] = <<>>
    /\ isinstance(base[e], "Context")

Pattern(atoms) == [k |-> "Pattern", v |-> atoms]

\* The pattern atoms p[pi..] match s from position si on (a prefix of the
\* rest of s: the match may end before the end of s).
RECURSIVE MatchAt(_, _, _, _)
MatchAt(p, pi, s, si) ==
    IF pi > Len(p) THEN TRUE
    ELSE CASE p[pi] = ".*" -> \E k \in si..(Len(s) + 1) : MatchAt(p, pi + 1, s, k)
           [] p[pi] = "." -> si <= Len(s) /\ MatchAt(p, pi + 1, s, si + 1)
           [] OTHER -> si <= Len(s) /\ s[si] = p[pi] /\ MatchAt(p, pi + 1, s, si + 1)

\* Pattern.search(string) is not None: a match starting at any position.
re_search(pattern, string) ==
    \E start \in 1..(Len(string.v) + 1) : MatchAt(pattern.v, 1, string.v, start)

InvalidParameterValue(param) == Raise("MlflowException:INVALID_PARAMETER_VALUE", param)

\* A variant that matches a pattern at the start of the name only (re.match).
_match_name_anchored(name, span) ==
    IF isinstance(name, "str") THEN [val |-> span.name = name, exc |-> NoExc]
    ELSE IF isinstance(name, "Pattern")
    THEN [val |-> MatchAt(name.v, 1, span.name.v, 1), exc |-> NoExc]
    ELSE IF name = None THEN [val |-> TRUE, exc |-> NoExc]
    ELSE [val |-> FALSE, exc |-> InvalidParameterValue("name")]

_match_name(name, span) ==
    IF isinstance(name, "str") THEN [val |-> span.name = name, exc |-> NoExc]
    ELSE IF isinstance(name, "Pattern")
    THEN [val |-> re_search(name, span.name), exc |-> NoExc]
    ELSE IF name = None THEN [val |-> TRUE, exc |-> NoExc]
    ELSE [val |-> FALSE, exc |-> InvalidParameterValue("name")]

_match_type(span_type, span) ==
    IF isinstance(span_type, "str") THEN [val |-> span.span_type = span_type, exc |-> NoExc]
    ELSE IF span_type = None THEN [val |-> TRUE, exc |-> NoExc]
    ELSE [val |-> FALSE, exc |-> InvalidParameterValue("span_type")]

_match_id(span_id, span) ==
    IF span_id = None THEN TRUE ELSE span.span_id = span_id

\* The list comprehension of search_spans over the spans ss: for each span
\* in order, _match_name and _match_type and _match_id, evaluated left to
\* right and only as far as needed; an exception ends the whole call.
RECURSIVE search_spans(_, _, _, _)
search_spans(ss, span_type, name, span_id) ==
    IF ss = <<>> THEN [ret |-> <<>>, exc |-> NoExc]
    ELSE LET span == Head(ss)
             mn == _match_name(name, span)
             mt == _match_type(span_type, span)
             rest == search_spans(Tail(ss), span_type, name, span_id)
             keep == IF rest.exc # NoExc THEN rest
                     ELSE [ret |-> <<span>> \o rest.ret, exc |-> NoExc]
         IN  IF mn.exc # NoExc THEN [ret |-> <<>>, exc |-> mn.exc]
             ELSE IF ~mn.val THEN rest
             ELSE IF mt.exc # NoExc THEN [ret |-> <<>>, exc |-> mt.exc]
             ELSE IF ~mt.val THEN rest
             ELSE IF ~_match_id(span_id, span) THEN rest
             ELSE keep

\* The traces searched: span i of a trace has the i-th span id.
SpanIdNames == <<"s1", "s2", "s3", "s4">>
SpanNames == {<<"a">>, <<"a", "m">>, <<"m", "a">>}
SpanTypes == {"LLM", "TOOL"}
SpanSeqs(n) ==
    UNION {{[i \in 1..m |-> [name |-> Str(f[i].name), span_type |-> Str(<<f[i].type>>),
                              span_id |-> Str(<<SpanIdNames[i]>>)]] :
               f \in [1..m -> [name : SpanNames, type : SpanTypes]]} : m \in 0..n}

\* The arguments tried: omitted, of a valid type, of an invalid type.
NameArgs ==
    {None, PyInt("5")} \cup {Str(n) : n \in SpanNames}
        \cup {Pattern(<<"a", "m">>), Pattern(<<"m", ".*">>), Pattern(<<".", "a">>)}
SpanTypeArgs == {None, PyInt("7")} \cup {Str(<<t>>) : t \in SpanTypes}
SpanIdArgs == {None, Str(<<"s1">>), Str(<<"s2">>), Str(<<"s9">>)}

InitSpans ==
    /\ InitCommon
    /\ spans \in SpanSeqs(MaxSpans)
    /\ assessments = <<>>

\* trace.search_spans(span_type, name, span_id) on a trace with these spans.
SearchSpans(span_type, name, span_id) ==
    /\ LET r == search_spans(spans, span_type, name, span_id)
       IN  /\ ret' = (IF r.exc = NoExc THEN r.ret ELSE None)
           /\ exc' = r.exc
    /\ call' = [op |-> "search_spans", e |-> 0,
                arg |-> [span_type |-> span_type, name |-> name, span_id |-> span_id]]
    /\ UNCHANGED <<status, base, ctxvar, stack, heap, spans, assessments>>

NextSpans ==
    \E span_type \in SpanTypeArgs, name \in NameArgs, span_id \in SpanIdArgs :
        SearchSpans(span_type, name, span_id)

SpecSpans == InitSpans /\ [][NextSpans]_vars

(* ------------------------ claims on search_spans ---------------------- *)
ValidName(name) == name = None \/ isinstance(name, "str") \/ isinstance(name, "Pattern")
ValidSpanType(span_type) == span_type = None \/ isinstance(span_type, "str")

\* C7: search_spans raises the invalid-parameter error whenever name or
\* span_type has an invalid type, whatever the trace and the other
\* predicates; with valid types it never raises.
C7_InvalidTypeAlwaysRaises ==
    call.op = "search_spans" =>
        IF ValidName(call.arg.name) /\ ValidSpanType(call.arg.span_type)
        THEN exc = NoExc
        ELSE exc.type = "MlflowException:INVALID_PARAMETER_VALUE"

\* The pattern atoms p match exactly the word w.
RECURSIVE InLanguage(_, _)
InLanguage(p, w) ==
    IF p = <<>> THEN w = <<>>
    ELSE CASE Head(p) = ".*" ->
                \E k \in 0..Len(w) : InLanguage(Tail(p), SubSeq(w, k + 1, Len(w)))
           [] Head(p) = "." -> w # <<>> /\ InLanguage(Tail(p), Tail(w))
           [] OTHER -> w # <<>> /\ Head(w) = Head(p) /\ InLanguage(Tail(p), Tail(w))

\* Some part of the word w, anywhere in it, is matched by the pattern.
MatchesAnywhere(p, w) ==
    \E i \in 1..(Len(w) + 1), j \in 0..Len(w) : InLanguage(p, SubSeq(w, i, j))

\* The span satisfies every predicate that was given.
Satisfies(span, arg) ==
    /\ isinstance(arg.name, "str") => span.name = arg.name
    /\ isinstance(arg.name, "Pattern") => MatchesAnywhere(arg.name.v, span.name.v)
    /\ arg.span_type # None => span.span_type = arg.span_type
    /\ arg.span_id # None => span.span_id = arg.span_id

validate_type(type, assessment) ==
    IF type = Str(<<"expectation">>) THEN isinstance(assessment, "Expectation")
    ELSE IF type = Str(<<"feedback">>) THEN isinstance(assessment, "Feedback")
    ELSE TRUE

\* A variant of the validity gate that takes an unset valid for invalid.
valid_gate_strict(all, assessment) == truthy(all) \/ assessment.valid = PyTrue

\* all or assessment.valid in (True, None)
valid_gate(all, assessment) == truthy(all) \/ assessment.valid \in {PyTrue, None}

\* The list comprehension of search_assessments over the assessments as.
RECURSIVE search_assessments(_, _, _, _, _)
search_assessments(as, name, span_id, all, type) ==
    IF as = <<>> THEN <<>>
    ELSE LET assessment == Head(as)
             rest == search_assessments(Tail(as), name, span_id, all, type)
         IN  IF /\ (name = None \/ assessment.name = name)
                /\ (span_id = None \/ assessment.span_id = span_id)
                /\ valid_gate(all, assessment)
                /\ (type = None \/ validate_type(type, assessment))
             THEN <<assessment>> \o rest
             ELSE rest

AssessmentValues ==
    [k : {"Expectation", "Feedback"},
     name : {Str(<<"n1">>), Str(<<"n2">>)},
     span_id : {None, Str(<<"s1">>)},
     valid : {PyTrue, PyFalse, None}]
AssessmentSeqs(n) == UNION {[1..m -> AssessmentValues] : m \in 0..n}

AssessmentNameArgs == {None, Str(<<"n1">>)}
AssessmentSpanArgs == {None, Str(<<"s1">>)}
TypeArgs == {None, Str(<<"expectation">>), Str(<<"feedback">>), Str(<<"bogus">>)}

InitAssessments ==
    /\ InitCommon
    /\ spans = <<>>
    /\ assessments \in AssessmentSeqs(MaxAssessments)

\* trace.search_assessments(name, span_id=, all=, type=).
SearchAssessments(name, span_id, all, type) ==
    /\ ret' = search_assessments(assessments, name, span_id, all, type)
    /\ exc' = NoExc
    /\ call' = [op |-> "search_assessments", e |-> 0,
                arg |-> [name |-> name, span_id |-> span_id, all |-> all, type |-> type]]
    /\ UNCHANGED <<status, base, ctxvar, stack, heap, spans, assessments>>

NextAssessments ==
    \E name \in AssessmentNameArgs, span_id \in AssessmentSpanArgs,
       all \in {PyTrue, PyFalse}, type \in TypeArgs :
        SearchAssessments(name, span_id, all, type)

SpecAssessments == InitAssessments /\ [][NextAssessments]_vars

(* --------------------- claims on search_assessments ------------------- *)
\* The assessment passes the name and span_id filters that were given.
Filtered(assessment, arg) ==
    /\ arg.name # None => assessment.name = arg.name
    /\ arg.span_id # None => assessment.span_id = arg.span_id

\* C9: without a type, all=False returns exactly the assessments that pass
\* the name and span_id filters and whose valid is True or unset (none with
\* valid False), all=True returns every assessment that passes the filters,
\* and both keep the order of info.assessments.
C9_ValidityGate ==
    (call.op = "search_assessments" /\ call.arg.type = None) =>
        LET Current(a) == Filtered(a, call.arg) /\ a.valid # PyFalse
            Passing(a) == Filtered(a, call.arg)
        IN  IF call.arg.all = PyTrue
            THEN ret = SelectSeq(assessments, Passing)
            ELSE /\ ret = SelectSeq(assessments, Current)
                 /\ \A i \in 1..Len(ret) : ret[i].valid \in {PyTrue, None}

C9_Witness ==
    /\ call.op = "search_assessments" /\ call.arg.type = None
    /\ call.arg.all = PyFalse /\ call.arg.name # None
    /\ Len(assessments) = 2
    /\ assessments[1].name = assessments[2].name
    /\ assessments[1].valid = PyFalse /\ assessments[2].valid = None
    /\ ret = <<assessments[2]>>

\* C10: with type "expectation" only Expectation entries are returned, with
\* type "feedback" only Feedback entries, and with any other type value no
\* assessment is returned.
C10_TypeRestricts ==
    call.op = "search_assessments" =>
        /\ call.arg.type = Str(<<"expectation">>)
            => \A i \in 1..Len(ret) : isinstance(ret[i], "Expectation")
        /\ call.arg.type = Str(<<"feedback">>)
            => \A i \in 1..Len(ret) : isinstance(ret[i], "Feedback")
        /\ call.arg.type \notin {None, Str(<<"expectation">>), Str(<<"feedback">>)}
            => ret = <<>>

====
